---- MODULE Spec2Model ----
(***************************************************************************)
(* Movie catalogue (src/lib.py, src/app.py): a console program that keeps  *)
(* movie records in one SQLite table and imports / exports them as JSON.   *)
(*                                                                         *)
(* Text is a sequence of code points ("a" is <<97>>).  Every value, at the *)
(* SQLite, Python and JSON level, is a record [t, n, s]: t the type tag,   *)
(* n a number, s a sequence of code points.  Integers are kept as a sign   *)
(* in n and their decimal digits in s, so that they are not limited to the *)
(* width of TLC's 32-bit integers; floats are kept in hundredths in n.     *)
(***************************************************************************)
EXTENDS Integers, Sequences, FiniteSets, TLC

\* Every operator takes what it works on as parameters and names no
\* intermediate result with LET: func(Step(x)) with func's parameter used
\* several times stands for "y = Step(x); ... y ... y ...".

VARIABLES movies, seq, exported, pc, conn, closes, everIds, last

vars == <<movies, seq, exported, pc, conn, closes, everIds, last>>

(***************************************************************************)
(* Bounds.                                                                 *)
(***************************************************************************)
\* largest id the AUTOINCREMENT counter may reach in a run
MaxId == 2

(***************************************************************************)
(* Values.                                                                 *)
(***************************************************************************)
V(t, n, s) == [t |-> t, n |-> n, s |-> s]

\* SQLite storage classes
SqlNull == V("NULL", 0, <<>>)
SqlInteger(sign, digits) == V("INTEGER", sign, digits)
SqlReal(h) == V("REAL", h, <<>>)
SqlText(s) == V("TEXT", 0, s)

\* Python objects
PyNone == V("None", 0, <<>>)
PyInt(sign, digits) == V("int", sign, digits)
PyFloat(h) == V("float", h, <<>>)
PyNaN == V("nan", 0, <<>>)
PyStr(s) == V("str", 0, s)

\* JSON literals
JNull == V("null", 0, <<>>)
JInt(sign, digits) == V("integer-literal", sign, digits)
JFloat(h) == V("fraction-literal", h, <<>>)
JNaN == V("NaN", 0, <<>>)
JStr(s) == V("string", 0, s)

(***************************************************************************)
(* Text.                                                                   *)
(***************************************************************************)
IsSpace(c) == c \in {9, 10, 11, 12, 13, 32}

IsDigit(c) == c \in 48..57

RECURSIVE LStrip(_)
LStrip(s) == IF s # <<>> /\ IsSpace(Head(s)) THEN LStrip(Tail(s)) ELSE s

RECURSIVE RStrip(_)
RStrip(s) ==
    IF s # <<>> /\ IsSpace(s[Len(s)]) THEN RStrip(SubSeq(s, 1, Len(s) - 1)) ELSE s

\* str.strip()
Strip(s) == RStrip(LStrip(s))

LowerChar(c) == IF c \in 65..90 THEN c + 32 ELSE c

\* str.lower()
Lower(s) == [i \in 1..Len(s) |-> LowerChar(s[i])]

AllDigits(s) == s # <<>> /\ \A i \in 1..Len(s) : IsDigit(s[i])

RECURSIVE StripZeros(_)
StripZeros(s) == IF Len(s) > 1 /\ Head(s) = 48 THEN StripZeros(Tail(s)) ELSE s

\* value of a digit string that fits TLC's integers
RECURSIVE DigitsValue(_)
DigitsValue(s) ==
    IF s = <<>> THEN 0 ELSE 10 * DigitsValue(SubSeq(s, 1, Len(s) - 1)) + (s[Len(s)] - 48)

\* decimal digits of a natural number
RECURSIVE Digits(_)
Digits(n) == IF n < 10 THEN <<48 + n>> ELSE Digits(n \div 10) \o <<48 + (n % 10)>>

\* s <= t for digit strings of equal length
RECURSIVE LexLeq(_, _)
LexLeq(s, t) ==
    \/ s = <<>>
    \/ Head(s) < Head(t)
    \/ Head(s) = Head(t) /\ LexLeq(Tail(s), Tail(t))

\* 9223372036854775807 and 9223372036854775808
Int64MaxDigits == <<57,50,50,51,51,55,50,48,51,54,56,53,52,55,55,53,56,48,55>>
Int64MinDigits == <<57,50,50,51,51,55,50,48,51,54,56,53,52,55,55,53,56,48,56>>

FitsInt64(sign, digits) ==
    \/ Len(digits) < Len(Int64MaxDigits)
    \/ /\ Len(digits) = Len(Int64MaxDigits)
       /\ LexLeq(digits, IF sign < 0 THEN Int64MinDigits ELSE Int64MaxDigits)

(***************************************************************************)
(* int() and float() of the console input.  A result is [ok, v]; ok FALSE  *)
(* is ValueError.  Literals are sign, digits and, for float, a point with  *)
(* at most two fraction digits, or nan.                                    *)
(***************************************************************************)
Unsigned(s) == IF s # <<>> /\ Head(s) \in {43, 45} THEN Tail(s) ELSE s

IsNegative(s) == s # <<>> /\ Head(s) = 45

Failed == [ok |-> FALSE, v |-> PyNone]

IntOfDigits(negative, digits) ==
    [ok |-> TRUE,
     v |-> PyInt(IF negative /\ digits # <<48>> THEN -1 ELSE 1, digits)]

IntOf(s) ==
    IF AllDigits(Unsigned(s)) THEN IntOfDigits(IsNegative(s), StripZeros(Unsigned(s)))
    ELSE Failed

\* int(text)
ParseInt(raw) == IntOf(Strip(raw))

\* position of the first point of s, 0 when it has none
PointAt(s) == IF \E i \in 1..Len(s) : s[i] = 46
              THEN CHOOSE i \in 1..Len(s) : s[i] = 46 /\ \A j \in 1..(i - 1) : s[j] # 46
              ELSE 0

Whole(body) == IF PointAt(body) = 0 THEN body ELSE SubSeq(body, 1, PointAt(body) - 1)

Frac(body) == IF PointAt(body) = 0 THEN <<>> ELSE SubSeq(body, PointAt(body) + 1, Len(body))

Hundredths(whole, frac) ==
    100 * DigitsValue(whole)
    + (IF frac = <<>> THEN 0
       ELSE IF Len(frac) = 1 THEN 10 * DigitsValue(frac)
       ELSE DigitsValue(frac))

FloatOfParts(negative, whole, frac) ==
    IF /\ whole \o frac # <<>>
       /\ whole = <<>> \/ AllDigits(whole)
       /\ frac = <<>> \/ (AllDigits(frac) /\ Len(frac) <= 2)
    THEN [ok |-> TRUE,
          v |-> PyFloat(IF negative THEN 0 - Hundredths(whole, frac)
                        ELSE Hundredths(whole, frac))]
    ELSE Failed

FloatOf(s) ==
    IF Lower(Unsigned(s)) = <<110, 97, 110>> THEN [ok |-> TRUE, v |-> PyNaN]
    ELSE FloatOfParts(IsNegative(s), Whole(Unsigned(s)), Frac(Unsigned(s)))

\* float(text)
ParseFloat(raw) == FloatOf(Strip(raw))

\* variant: the bounds 1.0 and 10.0 themselves refused
RatingInRangeOpen(v) == v.t = "float" /\ 100 < v.n /\ v.n < 1000

\* 1.0 <= rating <= 10.0 on a Python float; every comparison with nan is False
RatingInRange(v) == v.t = "float" /\ 100 <= v.n /\ v.n <= 1000

(***************************************************************************)
(* The movies table (create_table) and the statements run against it.  A   *)
(* database is [rows, seq]: the rows in rowid order and the AUTOINCREMENT  *)
(* counter kept in sqlite_sequence.                                        *)
(***************************************************************************)
Cols == <<"title", "director", "genre", "year", "rating">>

\* sqlite3 parameter binding; ok FALSE is OverflowError
Bind(v) ==
    CASE v.t = "None"  -> [ok |-> TRUE, v |-> SqlNull]
      [] v.t = "int"   -> [ok |-> FitsInt64(v.n, v.s), v |-> SqlInteger(v.n, v.s)]
      [] v.t = "float" -> [ok |-> TRUE, v |-> SqlReal(v.n)]
      [] v.t = "nan"   -> [ok |-> TRUE, v |-> SqlNull]
      [] v.t = "str"   -> [ok |-> TRUE, v |-> SqlText(v.s)]

Abs(n) == IF n < 0 THEN 0 - n ELSE n

Minus(n) == IF n < 0 THEN <<45>> ELSE <<>>

\* text of a number, as a TEXT column stores it
RealText(h) ==
    Minus(h) \o Digits(Abs(h) \div 100) \o <<46>>
    \o (IF Abs(h) % 10 = 0 THEN Digits((Abs(h) % 100) \div 10)
        ELSE <<48 + ((Abs(h) % 100) \div 10), 48 + (Abs(h) % 10)>>)

IntegerText(v) == Minus(v.n) \o v.s

NumericOf(v, i, f) ==
    IF i.ok /\ FitsInt64(i.v.n, i.v.s) THEN SqlInteger(i.v.n, i.v.s)
    ELSE IF f.ok /\ f.v.t = "float" THEN SqlReal(f.v.n)
    ELSE v

\* number of a well-formed numeric text, else the text itself
TextToNumeric(v) == IF v.t = "TEXT" THEN NumericOf(v, ParseInt(v.s), ParseFloat(v.s)) ELSE v

\* affinity of a column declared TEXT
TextAffinity(v) ==
    CASE v.t = "INTEGER" -> SqlText(IntegerText(v))
      [] v.t = "REAL"    -> SqlText(RealText(v.n))
      [] OTHER           -> v

\* affinity of a column declared INTEGER, on a value past TextToNumeric
IntegerAffinity(w) ==
    IF w.t = "REAL" /\ w.n % 100 = 0
    THEN SqlInteger(IF w.n < 0 THEN -1 ELSE 1, Digits(Abs(w.n) \div 100))
    ELSE w

\* affinity of a column declared REAL, on a value past TextToNumeric
RealAffinity(w) ==
    IF w.t = "INTEGER" THEN SqlReal(w.n * 100 * DigitsValue(w.s)) ELSE w

Affinity(col, v) ==
    IF col \in {"title", "director", "genre"} THEN TextAffinity(v)
    ELSE IF col = "year" THEN IntegerAffinity(TextToNumeric(v))
    ELSE RealAffinity(TextToNumeric(v))

\* title, director, genre, year are NOT NULL; rating is not
NotNullOk(row) ==
    \A c \in {"title", "director", "genre", "year"} : row[c].t # "NULL"

\* CHECK (rating >= 1.0 AND rating <= 10.0): fails only when the result is
\* false; a NULL rating makes it NULL, and text sorts after every number
CheckOk(row) ==
    CASE row.rating.t = "NULL" -> TRUE
      [] row.rating.t = "REAL" -> 100 <= row.rating.n /\ row.rating.n <= 1000
      [] OTHER                 -> FALSE

Ids(rows) == {rows[i].id : i \in 1..Len(rows)}

MaxOf(S) == IF S = {} THEN 0 ELSE CHOOSE m \in S : \A x \in S : x <= m

\* variant: INTEGER PRIMARY KEY without AUTOINCREMENT
NextIdOfRows(db) == MaxOf(Ids(db.rows)) + 1

\* id INTEGER PRIMARY KEY AUTOINCREMENT: one more than the largest rowid the
\* table ever held
NextId(db) == MaxOf(Ids(db.rows) \cup {db.seq}) + 1

Raised(db) == [ok |-> FALSE, db |-> db]

Done(db) == [ok |-> TRUE, db |-> db]

InsertChecked(db, bound, row) ==
    IF bound /\ NotNullOk(row) /\ CheckOk(row)
    THEN Done([rows |-> Append(db.rows, row), seq |-> row.id])
    ELSE Raised(db)

InsertBound(db, b) ==
    InsertChecked(db, \A i \in 1..5 : b[i].ok,
                  [id |-> NextId(db),
                   title |-> Affinity("title", b[1].v),
                   director |-> Affinity("director", b[2].v),
                   genre |-> Affinity("genre", b[3].v),
                   year |-> Affinity("year", b[4].v),
                   rating |-> Affinity("rating", b[5].v)])

\* INSERT INTO movies (title, director, genre, year, rating) VALUES (?,?,?,?,?)
\* p is the tuple of Python parameters; ok FALSE is the raised exception
InsertRow(db, p) == InsertBound(db, [i \in 1..5 |-> Bind(p[i])])

\* executemany: the rows one after the other, stopping at the first that
\* raises, with the rows before it still written in the open transaction
RECURSIVE ExecuteMany(_, _)
ExecuteRest(r, rest) == IF r.ok THEN ExecuteMany(r.db, rest) ELSE r

ExecuteMany(db, ps) ==
    IF ps = <<>> THEN Done(db) ELSE ExecuteRest(InsertRow(db, Head(ps)), Tail(ps))

\* variant: the rows written before the exception are kept
WithConnNoRollback(db, r) == r.db

\* with conn: commit when the block ends normally, roll back when it raises
WithConn(db, r) == IF r.ok THEN r.db ELSE db

\* LIKE without ESCAPE: % any run, _ any one character, letters of ASCII
\* compared without case
RECURSIVE Like(_, _)
Like(pat, str) ==
    IF pat = <<>> THEN str = <<>>
    ELSE IF Head(pat) = 37
         THEN Like(Tail(pat), str) \/ (str # <<>> /\ Like(pat, Tail(str)))
    ELSE IF Head(pat) = 95
         THEN str # <<>> /\ Like(Tail(pat), Tail(str))
    ELSE /\ str # <<>>
         /\ LowerChar(Head(pat)) = LowerChar(Head(str))
         /\ Like(Tail(pat), Tail(str))

\* variant: title LIKE title || '%'
TitleLikePrefix(r, title) == r.title.t = "TEXT" /\ Like(title \o <<37>>, r.title.s)

\* title LIKE '%' || title || '%'
TitleLike(r, title) == r.title.t = "TEXT" /\ Like(<<37>> \o title \o <<37>>, r.title.s)

\* search_movies(conn, title)
search_movies(rows, title) ==
    IF title # <<>>
    THEN LET likes(r) == TitleLike(r, title) IN SelectSeq(rows, likes)
    ELSE rows

UpdateRow(r, b) ==
    [k \in DOMAIN r |-> IF k \in DOMAIN b THEN Affinity(k, b[k].v) ELSE r[k]]

UpdateChecked(db, bound, rows) ==
    IF bound /\ \A i \in 1..Len(rows) : NotNullOk(rows[i]) /\ CheckOk(rows[i])
    THEN Done([rows |-> rows, seq |-> db.seq])
    ELSE Raised(db)

\* variant: UPDATE without its WHERE clause
UpdateBoundEveryRow(db, id, b) ==
    UpdateChecked(db, \A c \in DOMAIN b : b[c].ok,
                  [i \in 1..Len(db.rows) |-> UpdateRow(db.rows[i], b)])

UpdateBound(db, id, b) ==
    UpdateChecked(db, \A c \in DOMAIN b : b[c].ok,
                  [i \in 1..Len(db.rows) |->
                      IF db.rows[i].id = id THEN UpdateRow(db.rows[i], b)
                      ELSE db.rows[i]])

\* UPDATE movies SET k = ?, ... WHERE id = ?, fields the Python values by column
UpdateById(db, id, fields) ==
    UpdateBound(db, id, [c \in DOMAIN fields |-> Bind(fields[c])])

\* variant: DELETE without its WHERE clause
DeleteByIdsEveryRow(db, ids) == [rows |-> <<>>, seq |-> db.seq]

\* DELETE FROM movies WHERE id = ?, once for each id of the list
DeleteByIds(db, ids) ==
    [rows |-> LET stays(r) == r.id \notin ids IN SelectSeq(db.rows, stays),
     seq |-> db.seq]

\* DELETE FROM movies; sqlite_sequence is kept
DeleteAll(db) == [rows |-> <<>>, seq |-> db.seq]

(***************************************************************************)
(* JSON documents.  A file is [kind, items]: kind "missing" when there is  *)
(* no file, "invalid" when its text is not JSON, "array" when it is an     *)
(* array of the objects items (records of JSON literals).                  *)
(***************************************************************************)
NoFile == [kind |-> "missing", items |-> <<>>]

Array(items) == [kind |-> "array", items |-> items]

\* json.load, on one literal
JsonLoad(j) ==
    CASE j.t = "null"             -> PyNone
      [] j.t = "integer-literal"  -> PyInt(j.n, j.s)
      [] j.t = "fraction-literal" -> PyFloat(j.n)
      [] j.t = "NaN"              -> PyNaN
      [] j.t = "string"           -> PyStr(j.s)

\* variant: a float written without its fraction
JsonDumpWhole(v) ==
    CASE v.t = "None"  -> JNull
      [] v.t = "int"   -> JInt(v.n, v.s)
      [] v.t = "float" -> JInt(1, Digits(v.n \div 100))
      [] v.t = "nan"   -> JNaN
      [] v.t = "str"   -> JStr(v.s)

\* json.dump, on one Python object
JsonDump(v) ==
    CASE v.t = "None"  -> JNull
      [] v.t = "int"   -> JInt(v.n, v.s)
      [] v.t = "float" -> JFloat(v.n)
      [] v.t = "nan"   -> JNaN
      [] v.t = "str"   -> JStr(v.s)

\* the Python object sqlite3 returns for a stored value
FromSql(v) ==
    CASE v.t = "NULL"    -> PyNone
      [] v.t = "INTEGER" -> PyInt(v.n, v.s)
      [] v.t = "REAL"    -> PyFloat(v.n)
      [] v.t = "TEXT"    -> PyStr(v.s)

\* dict(movie) of a sqlite3.Row, then json.dump
RowToJson(r) ==
    [k \in DOMAIN r |->
        IF k = "id" THEN JsonDump(PyInt(1, Digits(r.id))) ELSE JsonDump(FromSql(r[k]))]

(***************************************************************************)
(* The operations of lib.py, as functions of the database and the console  *)
(* input.  Each returns the database it leaves and what it reported.       *)
(***************************************************************************)
Same(db, out) == [db |-> db, out |-> out]

HasKeys(obj) == \A i \in 1..Len(Cols) : Cols[i] \in DOMAIN obj

\* the parameter tuples built from the loaded document
Params(items) ==
    [i \in 1..Len(items) |-> [c \in 1..5 |-> JsonLoad(items[i][Cols[c]])]]

ImportResult(db, r) ==
    [db |-> WithConn(db, r), out |-> IF r.ok THEN "imported" ELSE "error"]

import_movies(db, doc) ==
    IF doc.kind = "missing" THEN Same(db, "FileNotFoundError")
    ELSE IF doc.kind = "invalid" THEN Same(db, "JSONDecodeError")
    ELSE IF \E i \in 1..Len(doc.items) : ~HasKeys(doc.items[i]) THEN Same(db, "KeyError")
    ELSE ImportResult(db, ExecuteMany(db, Params(doc.items)))

AddResult(db, ins) ==
    [db |-> WithConn(db, ins), out |-> IF ins.ok THEN "added" ELSE "error"]

AddParsed(db, title, director, genre, year, rating) ==
    IF ~year.ok \/ ~rating.ok THEN Same(db, "ValueError")
    ELSE IF ~RatingInRange(rating.v) THEN Same(db, "range")
    ELSE AddResult(db, InsertRow(db, <<PyStr(title), PyStr(director), PyStr(genre),
                                       year.v, rating.v>>))

add_movie(db, t, d, g, y, r) ==
    AddParsed(db, Strip(t), Strip(d), Strip(g), ParseInt(y), ParseFloat(r))

\* update_fields of modify_movie: the columns whose answer was not empty
FieldsOf(given) ==
    [c \in {k \in DOMAIN given : given[k] # <<>>} |->
        CASE c = "year"   -> ParseInt(given[c]).v
          [] c = "rating" -> ParseFloat(given[c]).v
          [] OTHER        -> PyStr(given[c])]

UpdateFields(nt, nd, ng, ny, nr) ==
    FieldsOf([title |-> nt, director |-> nd, genre |-> ng, year |-> ny, rating |-> nr])

ModifyResult(db, upd) ==
    [db |-> WithConn(db, upd), out |-> IF upd.ok THEN "modified" ELSE "error"]

ModifyFields(db, id, fields) ==
    IF DOMAIN fields = {} THEN Same(db, "nothing")
    ELSE ModifyResult(db, UpdateById(db, id, fields))

ModifyFound(db, found, nt, nd, ng, ny, nr) ==
    IF found = <<>> THEN Same(db, "no data")
    ELSE IF ny # <<>> /\ ~ParseInt(ny).ok THEN Same(db, "ValueError")
    ELSE IF nr # <<>> /\ ~ParseFloat(nr).ok THEN Same(db, "ValueError")
    ELSE IF nr # <<>> /\ ~RatingInRange(ParseFloat(nr).v) THEN Same(db, "range")
    ELSE ModifyFields(db, found[1].id, UpdateFields(nt, nd, ng, ny, nr))

modify_movie(db, t, nt, nd, ng, ny, nr) ==
    ModifyFound(db, search_movies(db.rows, Strip(t)),
                Strip(nt), Strip(nd), Strip(ng), Strip(ny), Strip(nr))

Yes(answer) == Lower(answer) = <<121>>

DeleteFound(db, found, confirm) ==
    IF found = <<>> THEN Same(db, "no data")
    ELSE IF Yes(confirm) THEN Same(DeleteByIds(db, Ids(found)), "deleted")
    ELSE Same(db, "cancelled")

delete_movies(db, all, t, confirm) ==
    IF Yes(all)
    THEN IF Yes(confirm) THEN Same(DeleteAll(db), "all deleted") ELSE Same(db, "cancelled")
    ELSE DeleteFound(db, search_movies(db.rows, Strip(t)), confirm)

ExportFound(file, found) ==
    IF found = <<>> THEN [file |-> file, out |-> "no data"]
    ELSE [file |-> Array([i \in 1..Len(found) |-> RowToJson(found[i])]),
          out |-> "exported"]

\* the file exported.json after export_movies
export_movies(db, file, all, t) ==
    ExportFound(file, search_movies(db.rows, IF Yes(all) THEN <<>> ELSE Strip(t)))

(***************************************************************************)
(* The session of app.py: main() opens the connection, runs the menu loop  *)
(* and closes the connection on option 7.  One action is one pass through  *)
(* the loop with its console input.  last records what the pass did: the   *)
(* operation, what it reported, the title filter it searched with and the  *)
(* rows list_rpt displayed.  everIds is the set of ids stored rows have    *)
(* had so far.                                                             *)
(***************************************************************************)
Db == [rows |-> movies, seq |-> seq]

Did(op, out, arg, shown) == [op |-> op, out |-> out, arg |-> arg, shown |-> shown]

\* a session that starts on a new movies.db
Init ==
    /\ movies = <<>>
    /\ seq = 0
    /\ exported = NoFile
    /\ pc = "start"
    /\ conn = "none"
    /\ closes = 0
    /\ everIds = {}
    /\ last = Did("none", "", <<>>, <<>>)

\* a session at its menu on a movies.db that earlier sessions left with one
\* of the tables of stores
InitAt(stores) ==
    /\ movies \in stores
    /\ seq = MaxOf(Ids(movies))
    /\ exported = NoFile
    /\ pc = "menu"
    /\ conn = "open"
    /\ closes = 0
    /\ everIds = Ids(movies)
    /\ last = Did("start", "", <<>>, <<>>)

\* the menu prompt is being shown on an open connection
AtMenu == pc = "menu" /\ conn = "open"

Write(db) ==
    /\ movies' = db.rows
    /\ seq' = db.seq
    /\ everIds' = everIds \cup Ids(db.rows)

Report(op, res, arg, shown) ==
    /\ Write(res.db)
    /\ last' = Did(op, res.out, arg, shown)

\* connect_db and create_table (IF NOT EXISTS)
Startup ==
    /\ pc = "start"
    /\ conn' = "open"
    /\ pc' = "menu"
    /\ last' = Did("start", "", <<>>, <<>>)
    /\ UNCHANGED <<movies, seq, exported, closes, everIds>>

\* choice 1, with doc the content of movies.json
ImportMovies(doc) ==
    /\ AtMenu
    /\ import_movies(Db, doc).db.seq <= MaxId
    /\ Report("import", import_movies(Db, doc), <<>>, <<>>)
    /\ UNCHANGED <<exported, pc, conn, closes>>

Listed(title) == last' = Did("search", "listed", title, search_movies(movies, title))

\* choice 2
SearchMovies(yn, t) ==
    /\ AtMenu
    /\ Listed(IF Yes(yn) THEN <<>> ELSE Strip(t))
    /\ UNCHANGED <<movies, seq, exported, pc, conn, closes, everIds>>

\* choice 3
AddMovie(t, d, g, y, r) ==
    /\ AtMenu
    /\ seq < MaxId
    /\ Report("add", add_movie(Db, t, d, g, y, r), <<>>, <<>>)
    /\ UNCHANGED <<exported, pc, conn, closes>>

\* choice 4
ModifyMovie(t, nt, nd, ng, ny, nr) ==
    /\ AtMenu
    /\ Report("modify", modify_movie(Db, t, nt, nd, ng, ny, nr),
              Strip(t), search_movies(movies, Strip(t)))
    /\ UNCHANGED <<exported, pc, conn, closes>>

\* choice 5
DeleteMovies(all, t, confirm) ==
    /\ AtMenu
    /\ Report("delete", delete_movies(Db, all, t, confirm),
              IF Yes(all) THEN <<>> ELSE Strip(t),
              IF Yes(all) THEN <<>> ELSE search_movies(movies, Strip(t)))
    /\ UNCHANGED <<exported, pc, conn, closes>>

Exported(res, title) ==
    /\ exported' = res.file
    /\ last' = Did("export", res.out, title, <<>>)

\* choice 6
ExportMovies(all, t) ==
    /\ AtMenu
    /\ Exported(export_movies(Db, exported, all, t), IF Yes(all) THEN <<>> ELSE Strip(t))
    /\ UNCHANGED <<movies, seq, pc, conn, closes, everIds>>

\* choice 7
Exit ==
    /\ AtMenu
    /\ conn' = "closed"
    /\ closes' = closes + 1
    /\ pc' = "exited"
    /\ last' = Did("exit", "", <<>>, <<>>)
    /\ UNCHANGED <<movies, seq, exported, everIds>>

\* any other choice
InvalidChoice ==
    /\ AtMenu
    /\ last' = Did("invalid", "", <<>>, <<>>)
    /\ UNCHANGED <<movies, seq, exported, pc, conn, closes, everIds>>

\* an input() outside every try block raises (EOFError on a closed stdin,
\* KeyboardInterrupt): the exception leaves main() and the program ends
FatalError ==
    /\ AtMenu
    /\ pc' = "crashed"
    /\ last' = Did("fatal", "", <<>>, <<>>)
    /\ UNCHANGED <<movies, seq, exported, conn, closes, everIds>>

(***************************************************************************)
(* Console input and import files.  A sample of input is its text with     *)
(* what the text stands for, written out by hand.                          *)
(***************************************************************************)
TxtA == <<97>>
TxtAB == <<97, 98>>
TxtB == <<98>>
TxtD == <<100>>
TxtE == <<101>>
TxtG == <<103>>
TxtH == <<104>>
TxtY == <<121>>
TxtN == <<110>>
Txt2010 == <<50, 48, 49, 48>>
Txt1999 == <<49, 57, 57, 57>>

Sample(text, kind, value) == [text |-> text, kind |-> kind, value |-> value]

\* answers to a title, director or genre prompt: kind "text", value the
\* text without the blanks around it
Blank == Sample(<<>>, "text", <<>>)
Spaces == Sample(<<32, 32>>, "text", <<>>)
TitleA == Sample(TxtA, "text", TxtA)
TitleAB == Sample(<<32, 97, 98>>, "text", TxtAB)
DirectorD == Sample(TxtD, "text", TxtD)
DirectorE == Sample(<<101, 32>>, "text", TxtE)
GenreG == Sample(TxtG, "text", TxtG)
GenreH == Sample(TxtH, "text", TxtH)

\* answers to the year prompt: kind "int64" with the digits as value, "big"
\* for an integer past 64 bits, "bad" for no integer
Year2010 == Sample(Txt2010, "int64", Txt2010)
Year1999 == Sample(<<32>> \o Txt1999, "int64", Txt1999)
YearBig == Sample(Int64MinDigits, "big", Int64MinDigits)
YearBad == Sample(<<50, 48, 120>>, "bad", <<>>)

\* answers to the rating prompt: kind "number" with the hundredths as value,
\* "nan", or "bad" for no number
Rating099 == Sample(<<48, 46, 57, 57>>, "number", 99)
Rating1 == Sample(<<49, 46, 48>>, "number", 100)
Rating88 == Sample(<<56, 46, 56>>, "number", 880)
Rating10 == Sample(<<49, 48, 46, 48>>, "number", 1000)
Rating1001 == Sample(<<49, 48, 46, 48, 49>>, "number", 1001)
Rating11 == Sample(<<49, 49>>, "number", 1100)
RatingNaN == Sample(<<110, 97, 110>>, "nan", 0)
RatingBad == Sample(<<120>>, "bad", 0)

JsonRow(t, d, g, y, r) == [title |-> t, director |-> d, genre |-> g, year |-> y, rating |-> r]

RowGood == JsonRow(JStr(TxtA), JStr(TxtD), JStr(TxtG), JInt(1, Txt2010), JFloat(880))
RowWhole == JsonRow(JStr(TxtAB), JStr(TxtD), JStr(TxtG), JInt(1, Txt1999), JInt(1, <<53>>))
RowNoRating == JsonRow(JStr(TxtAB), JStr(TxtD), JStr(TxtG), JInt(1, Txt2010), JNull)
RowRating11 == JsonRow(JStr(TxtAB), JStr(TxtD), JStr(TxtG), JInt(1, Txt2010), JInt(1, <<49, 49>>))
RowNoTitle == JsonRow(JNull, JStr(TxtD), JStr(TxtG), JInt(1, Txt2010), JFloat(880))
RowBigYear == JsonRow(JStr(TxtAB), JStr(TxtD), JStr(TxtG), JInt(1, Int64MinDigits), JFloat(880))
RowNoYearKey == [title |-> JStr(TxtAB), director |-> JStr(TxtD), genre |-> JStr(TxtG),
                 rating |-> JFloat(880)]

\* contents of movies.json: kind "whole" when every row can be stored,
\* "broken" when the file or one of its rows cannot
Docs ==
    {Sample(NoFile, "broken", 0),
     Sample([kind |-> "invalid", items |-> <<>>], "broken", 0),
     Sample(Array(<<RowGood>>), "whole", 1),
     Sample(Array(<<RowGood, RowWhole>>), "whole", 2),
     Sample(Array(<<RowGood, RowNoRating>>), "whole", 2),
     Sample(Array(<<RowGood, RowRating11>>), "broken", 0),
     Sample(Array(<<RowGood, RowNoTitle>>), "broken", 0),
     Sample(Array(<<RowGood, RowBigYear>>), "broken", 0),
     Sample(Array(<<RowGood, RowNoYearKey>>), "broken", 0)}

Case5(t, d, g, y, r) == [t |-> t, d |-> d, g |-> g, y |-> y, r |-> r]

Case6(f, t, d, g, y, r) == [f |-> f, t |-> t, d |-> d, g |-> g, y |-> y, r |-> r]

\* the answers given to add_movie and to modify_movie in the session
Adds ==
    {Case5(t, DirectorD, GenreG, Year2010, r) :
        t \in {Blank, TitleAB}, r \in {Rating10, Rating11}}

Modifies ==
    {Case6(f, t, Blank, Blank, Blank, Blank) : f \in {Blank, TitleA}, t \in {Blank, TitleA}}

Answers == {TxtY, <<89>>, TxtN}

Filters == {<<>>, TxtA, TxtB}

(***************************************************************************)
(* The session: any pass through the menu loop, with the samples as input. *)
(***************************************************************************)
AddStep(a) == AddMovie(a.t.text, a.d.text, a.g.text, a.y.text, a.r.text)

ModifyStep(m) == ModifyMovie(m.f.text, m.t.text, m.d.text, m.g.text, m.y.text, m.r.text)

Import == \E doc \in Docs : ImportMovies(doc.text)

Search == \E yn \in Answers, t \in Filters : SearchMovies(yn, t)

Add == \E a \in Adds : AddStep(a)

Modify == \E m \in Modifies : ModifyStep(m)

Delete == \E all \in Answers, t \in Filters, c \in Answers : DeleteMovies(all, t, c)

Export == \E all \in {TxtY, TxtN}, t \in {TxtA} : ExportMovies(all, t)

Next ==
    \/ Startup
    \/ Import
    \/ Search
    \/ Add
    \/ Modify
    \/ Delete
    \/ Export
    \/ Exit
    \/ InvalidChoice
    \/ FatalError

Spec == Init /\ [][Next]_vars

(***************************************************************************)
(* add_movie on every kind of answer to the year and rating prompts.       *)
(***************************************************************************)
AddCases ==
    {Case5(t, DirectorE, GenreG, y, r) :
        t \in {Blank, TitleA, TitleAB},
        y \in {Year2010, YearBig, YearBad},
        r \in {Rating099, Rating1, Rating88, Rating10, Rating1001, RatingNaN, RatingBad}}

NextAdd ==
    \/ Startup
    \/ \E a \in AddCases : AddStep(a)

SpecAdd == Init /\ [][NextAdd]_vars

(***************************************************************************)
(* search_movies on titles and filters that differ in case or hold the     *)
(* characters % and _.                                                     *)
(***************************************************************************)
SearchTitles == {Blank, TitleA, TitleAB, Sample(<<65>>, "text", <<65>>)}

SearchFilters == {<<>>, TxtA, <<65>>, TxtB, <<95>>, <<37>>, <<98, 97>>}

NextSearch ==
    \/ Startup
    \/ \E t \in SearchTitles : AddStep(Case5(t, DirectorD, GenreG, Year2010, Rating88))
    \/ \E yn \in {TxtY, TxtN}, t \in SearchFilters : SearchMovies(yn, t)

SpecSearch == Init /\ [][NextSearch]_vars

(***************************************************************************)
(* modify_movie with every subset of the five fields, on the tables two    *)
(* calls of add_movie leave.                                               *)
(***************************************************************************)
NewDb == [rows |-> <<>>, seq |-> 0]

OneRow == add_movie(NewDb, TxtA, TxtD, TxtG, Txt2010, Rating1.text).db

TwoRows == add_movie(OneRow, TxtAB, TxtD, TxtG, Txt2010, Rating88.text).db

ModifyStores == {NewDb.rows, OneRow.rows, TwoRows.rows}

\* a year and a rating of which one at least is refused
Refusals ==
    {<<YearBad, Blank>>, <<YearBig, Blank>>, <<YearBad, Rating10>>, <<Year1999, RatingBad>>,
     <<Blank, Rating099>>, <<Blank, Rating1001>>, <<Blank, RatingNaN>>, <<Blank, RatingBad>>}

ModifyCases ==
    {Case6(Blank, t, d, g, y, r) :
        t \in {Blank, TitleAB}, d \in {Spaces, DirectorE}, g \in {Blank, GenreH},
        y \in {Blank, Year1999}, r \in {Blank, Rating10}}
    \cup {Case6(TitleA, TitleAB, Blank, Blank, yr[1], yr[2]) : yr \in Refusals}
    \cup {Case6(TitleAB, Blank, DirectorE, Blank, Blank, Blank)}

NextModify == \E m \in ModifyCases : ModifyStep(m)

InitModify == InitAt(ModifyStores)

SpecModify == InitModify /\ [][NextModify]_vars

(***************************************************************************)
(* Properties of the session.                                              *)
(***************************************************************************)
Rows == {movies[i] : i \in 1..Len(movies)}

InRange(r) == r.kind = "number" /\ 100 <= r.value /\ r.value <= 1000

\* the step appended one row, with a new id, that carries the answers of a
Added(a) ==
    /\ Len(movies') = Len(movies) + 1
    /\ SubSeq(movies', 1, Len(movies)) = movies
    /\ movies'[Len(movies')].id \notin Ids(movies)
    /\ movies'[Len(movies')].title = SqlText(a.t.value)
    /\ movies'[Len(movies')].director = SqlText(a.d.value)
    /\ movies'[Len(movies')].genre = SqlText(a.g.value)
    /\ movies'[Len(movies')].year = SqlInteger(1, a.y.value)
    /\ movies'[Len(movies')].rating = SqlReal(a.r.value)

\* C1: every stored record has a rating r with 1.0 <= r <= 10.0, whatever
\* sequence of add, import, modify and delete led to it.
C1_RatingWithinBounds ==
    \A r \in Rows : r.rating.t = "REAL" /\ 100 <= r.rating.n /\ r.rating.n <= 1000

\* C2, as claimed: with a year that int() parses, add_movie appends exactly
\* one record carrying the answers if and only if 1.0 <= r <= 10.0, and
\* leaves the store unchanged for every other rating.
C2_AddIffInRange ==
    [][last'.op = "add" =>
       \A a \in AddCases :
          (AddStep(a) /\ a.y.kind \in {"int64", "big"} /\ a.r.kind \in {"number", "nan"})
          => IF InRange(a.r) THEN Added(a) ELSE movies' = movies]_vars

\* C2, amended: the same, for a year that int() parses and that fits a signed
\* 64-bit integer.
C2_AddIffInRangeInt64 ==
    [][last'.op = "add" =>
       \A a \in AddCases :
          (AddStep(a) /\ a.y.kind = "int64" /\ a.r.kind \in {"number", "nan"})
          => IF InRange(a.r) THEN Added(a) ELSE movies' = movies]_vars

\* add_movie has stored a record with the boundary rating 10.0
C2_Witness ==
    /\ last.op = "add" /\ last.out = "added"
    /\ movies[Len(movies)].rating = SqlReal(1000)

\* x occurs in s as a run of consecutive characters
Contains(s, x) == \E i \in 0..(Len(s) - Len(x)) : SubSeq(s, i + 1, i + Len(x)) = x

ContainsNoCase(s, x) == Contains(Lower(s), Lower(x))

Wildcards(x) == \E i \in 1..Len(x) : x[i] \in {37, 95}

\* C3, as claimed: a search with an empty filter lists every record, and a
\* search with the filter X lists exactly the records whose title contains X
\* as a case-sensitive substring.
C3_SearchIsSubstring ==
    last.op = "search" =>
        IF last.arg = <<>> THEN last.shown = movies
        ELSE LET has(r) == Contains(r.title.s, last.arg)
             IN  last.shown = SelectSeq(movies, has)

\* C3, amended: a search with an empty filter lists every record; a search
\* with the filter X lists every record whose title contains X, and when X
\* has neither % nor _ it lists exactly the records whose title contains X
\* with ASCII letters compared without case.
C3_SearchIsLike ==
    last.op = "search" =>
        IF last.arg = <<>> THEN last.shown = movies
        ELSE /\ \A r \in Rows :
                    Contains(r.title.s, last.arg) => \E i \in 1..Len(last.shown) : last.shown[i] = r
             /\ \A i \in 1..Len(last.shown) : last.shown[i] \in Rows
             /\ ~Wildcards(last.arg) =>
                    LET has(r) == ContainsNoCase(r.title.s, last.arg)
                    IN  last.shown = SelectSeq(movies, has)

\* a search for "A" has listed a record whose title has only "a"
C3_Witness ==
    /\ last.op = "search" /\ last.arg = <<65>>
    /\ \E i \in 1..Len(last.shown) : ~Contains(last.shown[i].title.s, last.arg)

\* the answer x gives a value to its field
Given(x) == x \notin {Blank, Spaces}

NoneGiven(m) == \A k \in {"t", "d", "g", "y", "r"} : ~Given(m[k])

\* the record r with the fields m gives replaced by the values m gives
Replaced(r, m) ==
    [id       |-> r.id,
     title    |-> IF Given(m.t) THEN SqlText(m.t.value) ELSE r.title,
     director |-> IF Given(m.d) THEN SqlText(m.d.value) ELSE r.director,
     genre    |-> IF Given(m.g) THEN SqlText(m.g.value) ELSE r.genre,
     year     |-> IF Given(m.y) THEN SqlInteger(1, m.y.value) ELSE r.year,
     rating   |-> IF Given(m.r) THEN SqlReal(m.r.value) ELSE r.rating]

\* the table with the first record the step displayed replaced, and every
\* other record as it was
TargetReplaced(m) ==
    [i \in 1..Len(movies) |->
        IF movies[i].id = last'.shown[1].id THEN Replaced(movies[i], m) ELSE movies[i]]

FailsParsing(m) ==
    \/ Given(m.y) /\ m.y.kind = "bad"
    \/ Given(m.r) /\ m.r.kind = "bad"

FailsBound(m) == Given(m.r) /\ ~InRange(m.r)

\* C4, as claimed: a modify gives the target record the supplied fields and
\* keeps its other fields, its id and every other record; with a year or a
\* rating that fails parsing or the bound check no field changes.
C4_ModifyPartial ==
    [][last'.op = "modify" =>
       \A m \in {c \in ModifyCases : c.f.value = last'.arg} :
          ModifyStep(m)
          => IF last'.shown = <<>> \/ FailsParsing(m) \/ FailsBound(m) \/ NoneGiven(m)
             THEN movies' = movies
             ELSE movies' = TargetReplaced(m)]_vars

\* C4, amended: the same, and with a year that does not fit a signed 64-bit
\* integer no field changes either.
C4_ModifyPartialInt64 ==
    [][last'.op = "modify" =>
       \A m \in {c \in ModifyCases : c.f.value = last'.arg} :
          ModifyStep(m)
          => IF \/ last'.shown = <<>> \/ FailsParsing(m) \/ FailsBound(m) \/ NoneGiven(m)
                \/ Given(m.y) /\ m.y.kind = "big"
             THEN movies' = movies
             ELSE movies' = TargetReplaced(m)]_vars

\* of two records the search matched, the first has a new director and its
\* old title, and the second is as it was displayed
C4_Witness ==
    /\ last.op = "modify" /\ last.out = "modified"
    /\ Len(last.shown) = 2
    /\ movies[1].director = SqlText(TxtE)
    /\ movies[1].title = last.shown[1].title
    /\ movies[1].id = last.shown[1].id
    /\ movies[2] = last.shown[2]

Confirmed(answer) == answer \in {<<121>>, <<89>>}

\* C5: a confirmed delete by title removes exactly the records the search
\* before the confirmation returned and displayed, a confirmed delete of all
\* leaves no record, and a delete that is not confirmed changes nothing.
\* (last'.arg is the title the step searched with.)
C5_DeleteExactly ==
    [][last'.op = "delete" =>
       \A all \in Answers, c \in Answers :
          DeleteMovies(all, last'.arg, c)
          => IF ~Confirmed(c) THEN movies' = movies
             ELSE IF Confirmed(all) THEN movies' = <<>>
             ELSE LET stays(r) == r.id \notin Ids(last'.shown)
                  IN  movies' = SelectSeq(movies, stays)]_vars

\* a confirmed delete by title has removed the record it displayed and has
\* left the other
C5_Witness ==
    /\ last.op = "delete" /\ last.out = "deleted"
    /\ Len(last.shown) = 1
    /\ Len(movies) = 1

Tuple5(r) == <<r.title, r.director, r.genre, r.year, r.rating>>

Tuples(rows) == [i \in 1..Len(rows) |-> Tuple5(rows[i])]

Count(s, x) == Cardinality({i \in 1..Len(s) : s[i] = x})

SameBag(s, t) ==
    /\ Len(s) = Len(t)
    /\ \A i \in 1..Len(s) : Count(s, s[i]) = Count(t, s[i])

\* the table after importing exported.json into an empty store
RoundTrip == import_movies([rows |-> <<>>, seq |-> 0], exported).db.rows

\* C6, as claimed: after an export of the full record set, importing the
\* document into an empty store gives the tuples of the exported store.
C6_RoundTrip ==
    (last.op = "export" /\ last.arg = <<>>)
    => SameBag(Tuples(RoundTrip), Tuples(movies))

\* C6, amended: the same, for every record set that is not empty.
C6_RoundTripNonEmpty ==
    (last.op = "export" /\ last.arg = <<>> /\ movies # <<>>)
    => SameBag(Tuples(RoundTrip), Tuples(movies))

\* a store of two records, one without rating, has been exported in full
C6_Witness ==
    /\ last.op = "export" /\ last.arg = <<>> /\ last.out = "exported"
    /\ Len(movies) = 2
    /\ \E r \in Rows : r.rating = SqlNull

\* C7: every stored record has its five fields, and its title, director and
\* genre are text that is not empty.
C7_FieldsPresent ==
    \A r \in Rows :
        /\ \A c \in {"title", "director", "genre"} : r[c].t = "TEXT" /\ r[c].s # <<>>
        /\ r.year.t # "NULL"
        /\ r.rating.t # "NULL"

\* C8: a new record gets an id above every id a stored record has had, the
\* ids of the stored records differ, and no operation changes the id of a
\* record: modify keeps every id in place, and only add and import bring ids.
C8_IdsNeverReused ==
    [][/\ \A i \in 1..Len(movies') :
              movies'[i].id \notin Ids(movies) => \A old \in everIds : movies'[i].id > old
       /\ Cardinality(Ids(movies')) = Len(movies')
       /\ last'.op = "modify" =>
              /\ Len(movies') = Len(movies)
              /\ \A i \in 1..Len(movies) : movies'[i].id = movies[i].id
       /\ last'.op \notin {"add", "import"} => Ids(movies') \subseteq Ids(movies)]_vars

\* a record has been added after the deletion of the one before it
C8_Witness ==
    /\ last.op = "add" /\ last.out = "added"
    /\ Len(movies) = 1
    /\ movies[1].id = 2

\* C9: when the session has ended, by the exit option or by a fatal error,
\* the connection has been closed exactly once; it is never closed twice nor
\* used once closed.
C9_ClosedExactlyOnce ==
    /\ closes <= 1
    /\ pc \in {"exited", "crashed"} => conn = "closed" /\ closes = 1
    /\ pc = "menu" => conn = "open"

\* C10: an import inserts every element of the document, or, when the file
\* or one of its rows cannot be stored, leaves the store as it was.
C10_ImportAllOrNothing ==
    [][last'.op = "import" =>
       \A doc \in Docs :
          ImportMovies(doc.text)
          => IF doc.kind = "whole"
             THEN /\ Len(movies') = Len(movies) + Len(doc.text.items)
                  /\ SubSeq(movies', 1, Len(movies)) = movies
             ELSE movies' = movies /\ seq' = seq]_vars

\* an import whose second row broke a constraint has been refused
C10_Witness ==
    /\ last.op = "import" /\ last.out = "error"
    /\ Len(movies) = 1

====
